---- MODULE Spec2Model ----
(***************************************************************************)
(* A model of dummynet's process monitor (process_monitor.py) and of the   *)
(* compensating-action stack of DummyNet (dummy_net.py).                   *)
(*                                                                         *)
(* The control thread is single: pc says which handler it is in and where. *)
(* Child processes are the environment: they write to their pipes and exit *)
(* between the steps of the control thread.                                *)
(***************************************************************************)
EXTENDS Integers, Sequences, FiniteSets, TLC

\* -------------------------------------------------------------------------
\* Bounds of the model
\* -------------------------------------------------------------------------
\* Number of processes launched in one behaviour.
MaxProcs == 2
\* Largest number of bytes a child writes to its stdout.
MaxOut == 3
\* Largest number of bytes a child writes to its stderr.
MaxErr == 1
\* os.read(fd, 4096): the size of one read, scaled down.
ReadSize == 2
\* Capacity of a kernel pipe (65536 on Linux), scaled down.
PipeCap == 3

\* -------------------------------------------------------------------------
\* Program constants
\* -------------------------------------------------------------------------
SIGTERM == 15
SIGKILL == 9

Pids == 1..MaxProcs
Streams == {"stdout", "stderr"}

\* Python's None for an Optional value, and a present value.
None == <<>>
Some(v) == <<v>>

Min(a, b) == IF a < b THEN a ELSE b

\* The errors of errors.py, each carrying the pid of the RunInfo it names.
RunInfoError(p) == <<"RunInfoError", p>>
TimeoutError(p) == <<"TimeoutError", p>>
DaemonExitError(p) == <<"DaemonExitError", p>>
NoProcessesError == <<"NoProcessesError", 0>>

VARIABLES
    os,          \* the kernel's view of each child: state, exit status, pipes
    info,        \* RunInfo of each launched process
    callbacks,   \* info.stdout_callback / info.stderr_callback installed?
    fds,         \* Poller.fds: the registered descriptors <<pid, stream>>
    processes,   \* ProcessMonitor.processes
    daemons,     \* ProcessMonitor.daemons
    pc,          \* position of the control thread
    cur,         \* the process a synchronous launch or stop is working on
    todo,        \* the processes stop() still has to stop
    call,        \* the API call in progress or last finished, and its outcome
    delivered,   \* what each user callback has been handed, concatenated
    early,       \* callback installed before any poll pass after the launch
    polled,      \* a poll pass ran since this process was launched
    hist         \* what earlier calls did: the process failures raised so far,
                 \* and the daemons an earlier keep_running found exited

monVars == <<os, info, callbacks, fds, processes, daemons, pc, cur, todo, call,
             delivered, early, polled, hist>>

\* -------------------------------------------------------------------------
\* The state after ProcessMonitor.__init__
\* -------------------------------------------------------------------------
NoBytes == [s \in Streams |-> <<>>]
NoCount == [s \in Streams |-> 0]
NoFlags == [s \in Streams |-> FALSE]

Unborn == [st |-> "unborn", status |-> None, want |-> NoCount, nw |-> NoCount,
           pipe |-> NoBytes, termed |-> FALSE, active |-> FALSE]

NoInfo == [returncode |-> None, stdout |-> <<>>, stderr |-> <<>>,
           is_async |-> FALSE, is_daemon |-> FALSE, timeout |-> FALSE]

NoCall == [op |-> "none", done |-> TRUE, polled |-> FALSE, exc |-> <<>>,
           ret |-> "None", timedout |-> FALSE, first |-> {}, failed |-> {},
           pending |-> {},
           stack |-> <<>>, mark |-> 0, again |-> FALSE]

MonInit ==
    /\ os = [p \in Pids |-> Unborn]
    /\ info = [p \in Pids |-> NoInfo]
    /\ callbacks = [p \in Pids |-> NoFlags]
    /\ fds = {}
    /\ processes = <<>>
    /\ daemons = <<>>
    /\ pc = "idle"
    /\ cur = 0
    /\ todo = <<>>
    /\ call = NoCall
    /\ delivered = [p \in Pids |-> NoBytes]
    /\ early = [p \in Pids |-> NoFlags]
    /\ polled = [p \in Pids |-> FALSE]
    /\ hist = [reported |-> {}, kept |-> {}, before |-> {}]

\* -------------------------------------------------------------------------
\* Helpers
\* -------------------------------------------------------------------------
Launched(p) == os[p].st # "unborn"
Running(p) == os[p].st = "running"
Exited(p) == os[p].st = "exited"

\* The elements of a sequence.
Range(seq) == {seq[i] : i \in 1..Len(seq)}

HasFreePid == \E p \in Pids : ~Launched(p)
FreePid == CHOOSE p \in Pids : ~Launched(p) /\ \A q \in Pids : q < p => Launched(q)

\* A call that has just begun.  first, failed, pending, stack and mark record
\* what the call found when it began: the tracked daemons that exited while a
\* transient process was tracked and that no earlier keep_running has met; the
\* tracked transients that exited non-zero and that no earlier keep_running
\* has met; the
\* tracked processes whose failure no validation had seen when the call
\* validated; the stack of
\* compensations; the number of compensations invoked before; whether the
\* call is a cleanup made right after a cleanup that returned.
BeginCall(name) == [NoCall EXCEPT !.op = name, !.done = FALSE]

\* The call returns a value / raises the leaves of excs.
Return(c, value) == [c EXCEPT !.done = TRUE, !.ret = value]
Raise(c, excs) == [c EXCEPT !.done = TRUE, !.exc = excs]

\* -------------------------------------------------------------------------
\* State of a DummyNet context (dummy_net.py)
\* -------------------------------------------------------------------------
VARIABLES
    cleaners,    \* DummyNet.cleaners: the stack of CleanupItems, top last
    namespaces,  \* DummyNet.namespaces: the live child namespaces
    cgroups,     \* DummyNet.cgroups: the live cgroups
    undone,      \* the compensations invoked so far, in invocation order
    nextId,      \* number of compensations pushed so far
    dnets,       \* the child DummyNet objects netns_add has returned
    host,        \* the kernel's namespaces, interfaces and addresses
    explicit,    \* the caller has called link_delete or netns_delete
    obj,         \* the scoped name constructed last (scoped.py), or the
                 \* ValueError its constructor raised
    results,     \* PendingResult._result of the handle of each process
                 \* (pending_result.py)
    shells       \* NamespaceShell.shell of each child context: the context
                 \* whose shell it wraps

netVars == <<cleaners, namespaces, cgroups, undone, nextId, dnets, host, explicit,
             obj, results, shells>>

vars == <<monVars, netVars>>

\* -------------------------------------------------------------------------
\* The children (the environment of the monitor)
\* -------------------------------------------------------------------------
\* A running child writes the next byte of its output to one of its pipes; it
\* blocks while the pipe is full.  Byte k of a stream is the number k.
ChildWrite(p, s) ==
    /\ Running(p)
    /\ os[p].nw[s] < os[p].want[s]
    /\ Len(os[p].pipe[s]) < PipeCap
    /\ os' = [os EXCEPT ![p].nw[s] = @ + 1,
                        ![p].pipe[s] = Append(@, os[p].nw[s] + 1)]
    /\ UNCHANGED <<info, callbacks, fds, processes, daemons, pc, cur, todo,
                   call, delivered, early, polled, hist>>
    /\ UNCHANGED netVars

\* The kernel's record of a child that ends with the given status; active
\* notes whether a transient process was tracked at that moment.
Dies(p, status) ==
    [os[p] EXCEPT !.st = "exited", !.status = status, !.active = processes # <<>>]

\* A running child that has written all its output exits with status c; the
\* kernel closes the write ends of its pipes.
ChildExit(p, c) ==
    /\ Running(p)
    /\ \A s \in Streams : os[p].nw[s] = os[p].want[s]
    /\ os' = [os EXCEPT ![p] = Dies(p, Some(c))]
    /\ UNCHANGED <<info, callbacks, fds, processes, daemons, pc, cur, todo,
                   call, delivered, early, polled, hist>>
    /\ UNCHANGED netVars

\* A child that was sent SIGTERM and does not handle it dies of it.
ChildTerminated(p) ==
    /\ Running(p)
    /\ os[p].termed
    /\ os' = [os EXCEPT ![p] = Dies(p, Some(-SIGTERM))]
    /\ UNCHANGED <<info, callbacks, fds, processes, daemons, pc, cur, todo,
                   call, delivered, early, polled, hist>>
    /\ UNCHANGED netVars

\* -------------------------------------------------------------------------
\* ProcessMonitor.Poller
\* -------------------------------------------------------------------------
\* select.poll: POLLIN while the pipe holds data, POLLHUP once no writer is left.
POLLIN(fd) == Len(os[fd[1]].pipe[fd[2]]) > 0
POLLHUP(fd) == Exited(fd[1])

\* A variant that takes the bytes written last.
read_fd_Last(fd) ==
    SubSeq(os[fd[1]].pipe[fd[2]],
           Len(os[fd[1]].pipe[fd[2]]) - Min(ReadSize, Len(os[fd[1]].pipe[fd[2]])) + 1,
           Len(os[fd[1]].pipe[fd[2]]))

\* Poller.read_fd: one os.read of at most ReadSize bytes.
read_fd(fd) == SubSeq(os[fd[1]].pipe[fd[2]], 1,
                      Min(ReadSize, Len(os[fd[1]].pipe[fd[2]])))

\* The descriptors one Poller.poll pass reads from and unregisters.
PollReads == {fd \in fds : POLLIN(fd)}
PollDeletes == {fd \in fds : POLLHUP(fd)}

\* Process.__init__.stdout_callback / stderr_callback: what the callback adds
\* to the record, and what it hands to the user's callback.
Appended(fd) == IF fd \in PollReads THEN read_fd(fd) ELSE <<>>
\* A variant that skips the user's callback on the pass that sees the hang-up.
Delivered_NoHup(fd) ==
    IF fd \in PollReads /\ callbacks[fd[1]][fd[2]] /\ ~POLLHUP(fd) THEN read_fd(fd) ELSE <<>>

Delivered(fd) == IF fd \in PollReads /\ callbacks[fd[1]][fd[2]] THEN read_fd(fd) ELSE <<>>

\* Poller.poll: one pass over the registered descriptors.
PollerPoll ==
    /\ os' = [p \in Pids |-> [os[p] EXCEPT !.pipe =
                [s \in Streams |-> SubSeq(os[p].pipe[s], Len(Appended(<<p, s>>)) + 1,
                                          Len(os[p].pipe[s]))]]]
    /\ info' = [p \in Pids |-> [info[p] EXCEPT
                  !.stdout = @ \o Appended(<<p, "stdout">>),
                  !.stderr = @ \o Appended(<<p, "stderr">>)]]
    /\ delivered' = [p \in Pids |-> [s \in Streams |->
                        delivered[p][s] \o Delivered(<<p, s>>)]]
    /\ fds' = fds \ PollDeletes
    /\ polled' = [p \in Pids |-> Launched(p)]

\* -------------------------------------------------------------------------
\* ProcessMonitor.Process
\* -------------------------------------------------------------------------
\* Process.__init__ up to the registration of the two descriptors.
Spawn(p, async, daemon, timeout, wout, werr) ==
    /\ os' = [os EXCEPT ![p] = [Unborn EXCEPT !.st = "running",
                  !.want = [stdout |-> wout, stderr |-> werr]]]
    /\ info' = [info EXCEPT ![p] = [NoInfo EXCEPT !.is_async = async,
                  !.is_daemon = daemon, !.timeout = timeout]]
    /\ fds' = fds \cup {<<p, "stdout">>, <<p, "stderr">>}

\* subprocess.Popen.poll
popen_poll(p) == IF Exited(p) THEN os[p].status ELSE None

\* Process.is_running: the return code it leaves in the record, and its result.
is_running_returncode(p) ==
    IF info[p].returncode # None THEN info[p].returncode ELSE popen_poll(p)

\* A variant that answers from the return code alone.
is_running_Known(p) == is_running_returncode(p) = None

is_running(p) ==
    IF info[p].returncode # None THEN TRUE ELSE popen_poll(p) = None

\* A variant that sends SIGTERM without looking at the exit status.
StopSignals_Always(p) == TRUE

\* Process.stop, first half: nothing to do if the exit status is known,
\* otherwise SIGTERM goes to the process group.  TRUE iff the signal was sent.
StopSignals(p) == popen_poll(p) = None

\* A variant that takes every child that was sent SIGTERM to have died of it.
StopStatus_Term(p) == IF Exited(p) THEN Some(-SIGTERM) ELSE Some(-SIGKILL)

\* Process.stop, second half: popen.wait(timeout=0.5), then SIGKILL and an
\* unconditional wait if the child is still alive.  The status it records.
StopStatus(p) == IF Exited(p) THEN os[p].status ELSE Some(-SIGKILL)

\* -------------------------------------------------------------------------
\* ProcessMonitor._validate_state
\* -------------------------------------------------------------------------
\* The tracked processes that have failed, as the kernel knows it, without any
\* validation having seen it: an exited daemon, a transient that exited non-zero.
PendingFailures ==
    {p \in Range(processes) \cup Range(daemons) :
        /\ Exited(p)
        /\ info[p].returncode = None
        /\ (p \in Range(daemons) \/ os[p].status # Some(0))}

\* A variant that takes only a death by signal for a failure.
FailedProcesses_Signals ==
    SelectSeq(processes, LAMBDA p : ~is_running(p) /\ is_running_returncode(p) # None
                                    /\ is_running_returncode(p)[1] < 0)

FailedProcesses ==
    SelectSeq(processes, LAMBDA p : ~is_running(p) /\ is_running_returncode(p) # Some(0))

\* A variant that takes a daemon's exit with status 0 for a normal end.
ExitedDaemons_NonZero ==
    SelectSeq(daemons, LAMBDA p : ~is_running(p) /\ is_running_returncode(p) # Some(0))

ExitedDaemons == SelectSeq(daemons, LAMBDA p : ~is_running(p))

\* A variant that keeps the last failure only.
ValidateExceptions_Last ==
    IF ExitedDaemons # <<>>
    THEN <<DaemonExitError(ExitedDaemons[Len(ExitedDaemons)])>>
    ELSE IF FailedProcesses # <<>>
    THEN <<RunInfoError(FailedProcesses[Len(FailedProcesses)])>>
    ELSE <<>>

\* The exceptions _validate_state collects: processes first, then daemons.
ValidateExceptions ==
    [i \in 1..Len(FailedProcesses) |-> RunInfoError(FailedProcesses[i])]
    \o [i \in 1..Len(ExitedDaemons) |-> DaemonExitError(ExitedDaemons[i])]

\* The records after _validate_state polled every tracked process.
ValidateInfo ==
    [p \in Pids |-> IF p \in Range(processes) \cup Range(daemons)
                    THEN [info[p] EXCEPT !.returncode = is_running_returncode(p)]
                    ELSE info[p]]

\* -------------------------------------------------------------------------
\* ProcessMonitor.run_process_async
\* -------------------------------------------------------------------------
\* A variant that tracks every asynchronous process as a transient one.
TrackedIn_Processes(daemon) == "processes"

\* The collection an asynchronous launch appends the new process to.
TrackedIn(daemon) == IF daemon THEN "daemons" ELSE "processes"

run_process_async(daemon, wout, werr) ==
    /\ pc = "idle"
    /\ HasFreePid
    /\ Spawn(FreePid, TRUE, daemon, FALSE, wout, werr)
    /\ IF TrackedIn(daemon) = "daemons"
       THEN daemons' = Append(daemons, FreePid) /\ UNCHANGED processes
       ELSE processes' = Append(processes, FreePid) /\ UNCHANGED daemons
    /\ call' = Return(BeginCall("run_process_async"), "info")
    /\ UNCHANGED <<callbacks, pc, cur, todo, delivered, early, polled, hist>>
    /\ UNCHANGED netVars

\* The caller installs info.stdout_callback / info.stderr_callback on the
\* record an asynchronous launch returned.
SetCallback(p, s) ==
    /\ pc = "idle"
    /\ Launched(p)
    /\ info[p].is_async
    /\ ~callbacks[p][s]
    /\ callbacks' = [callbacks EXCEPT ![p][s] = TRUE]
    /\ early' = [early EXCEPT ![p][s] = ~polled[p]]
    /\ UNCHANGED <<os, info, fds, processes, daemons, pc, cur, todo, call,
                   delivered, polled, hist>>
    /\ UNCHANGED netVars

\* -------------------------------------------------------------------------
\* ProcessMonitor.keep_running
\* -------------------------------------------------------------------------
\* Variants of the check: refuse whenever no transient process is tracked;
\* refuse only when nothing at all is tracked.
KeepRunningRefuses_Empty == processes = <<>>
KeepRunningRefuses_Nothing == processes = <<>> /\ daemons = <<>>

\* The check made before polling.
KeepRunningRefuses == processes = <<>> /\ daemons # <<>>

\* keep_running up to the end of poller.poll(timeout).
KeepRunningPoll ==
    /\ pc = "idle"
    /\ IF KeepRunningRefuses
       THEN /\ call' = Raise(BeginCall("keep_running"), <<NoProcessesError>>)
            /\ UNCHANGED <<os, info, fds, delivered, polled, pc, hist>>
       ELSE /\ PollerPoll
            /\ call' = [BeginCall("keep_running") EXCEPT !.polled = TRUE,
                          !.first = {d \in Range(daemons) : Exited(d) /\ os[d].active}
                                    \ hist.kept,
                          !.failed = {p \in Range(processes) :
                                        Exited(p) /\ os[p].status # Some(0)}
                                     \ hist.kept]
            /\ hist' = [hist EXCEPT !.kept = @ \cup
                            {p \in Range(processes) \cup Range(daemons) : Exited(p)}]
            /\ pc' = "kr_validate"
    /\ UNCHANGED <<callbacks, processes, daemons, cur, todo, early>>
    /\ UNCHANGED netVars

\* A variant that counts the daemons as well.
KeepRunningResult_Daemons(inf) ==
    IF \E p \in Range(processes) \cup Range(daemons) : inf[p].returncode = None
    THEN "True" ELSE "False"

\* A variant with all() in the place of any().
KeepRunningResult_All(inf) ==
    IF \A i \in 1..Len(processes) : inf[processes[i]].returncode = None
    THEN "True" ELSE "False"

\* The value keep_running returns: is a non-daemon process still unterminated?
KeepRunningResult(inf) ==
    IF \E i \in 1..Len(processes) : inf[processes[i]].returncode = None
    THEN "True" ELSE "False"

\* keep_running from _validate_state to its return.
KeepRunningValidate ==
    /\ pc = "kr_validate"
    /\ info' = ValidateInfo
    /\ IF ValidateExceptions # <<>>
       THEN call' = Raise([call EXCEPT !.pending = PendingFailures], ValidateExceptions)
       ELSE call' = Return(call, KeepRunningResult(ValidateInfo))
    /\ hist' = [hist EXCEPT !.reported = @ \cup Range(ValidateExceptions),
                            !.kept = @ \cup PendingFailures]
    /\ pc' = "idle"
    /\ UNCHANGED <<os, callbacks, fds, processes, daemons, cur, todo,
                   delivered, early, polled>>
    /\ UNCHANGED netVars

\* -------------------------------------------------------------------------
\* ProcessMonitor.stop
\* -------------------------------------------------------------------------
\* A variant without the loop over the daemons.
StopOrder_NoDaemons == processes

\* The order in which stop() stops the tracked processes.
StopOrder == processes \o daemons

\* stop() up to the end of _validate_state, which may raise.
StopValidate ==
    /\ pc = "idle"
    /\ info' = ValidateInfo
    /\ hist' = [hist EXCEPT !.reported = @ \cup Range(ValidateExceptions)]
    /\ IF ValidateExceptions # <<>>
       THEN /\ call' = Raise([BeginCall("stop") EXCEPT !.pending = PendingFailures],
                               ValidateExceptions)
            /\ UNCHANGED <<pc, todo>>
       ELSE /\ call' = [BeginCall("stop") EXCEPT !.pending = PendingFailures]
            /\ todo' = StopOrder
            /\ pc' = "stop_next"
    /\ UNCHANGED <<os, callbacks, fds, processes, daemons, cur, delivered,
                   early, polled>>
    /\ UNCHANGED netVars

\* The loops of stop(): Process.stop of the next process, up to its wait.
StopNext ==
    /\ pc = "stop_next"
    /\ todo # <<>>
    /\ cur' = Head(todo)
    /\ todo' = Tail(todo)
    /\ IF StopSignals(Head(todo))
       THEN /\ os' = [os EXCEPT ![Head(todo)].termed = TRUE]
            /\ info' = [info EXCEPT ![Head(todo)].returncode = None]
            /\ pc' = "stop_wait"
       ELSE /\ info' = [info EXCEPT ![Head(todo)].returncode = popen_poll(Head(todo))]
            /\ UNCHANGED <<os, pc>>
    /\ UNCHANGED <<callbacks, fds, processes, daemons, call, delivered, early,
                   polled, hist>>
    /\ UNCHANGED netVars

\* A variant that gives up after the grace period, without SIGKILL.
ProcessStopWait_NoKill(p, next) ==
    /\ os' = os
    /\ info' = [info EXCEPT ![p].returncode = popen_poll(p)]
    /\ pc' = next

\* Process.stop after SIGTERM: the wait, and SIGKILL if the grace period ends
\* with the child alive.
ProcessStopWait(p, next) ==
    /\ os' = [os EXCEPT ![p] = IF Exited(p) THEN @ ELSE Dies(p, StopStatus(p))]
    /\ info' = [info EXCEPT ![p].returncode = StopStatus(p)]
    /\ pc' = next

StopWait ==
    /\ pc = "stop_wait"
    /\ ProcessStopWait(cur, "stop_next")
    /\ UNCHANGED <<callbacks, fds, processes, daemons, cur, todo, call,
                   delivered, early, polled, hist>>
    /\ UNCHANGED netVars

\* Where the control thread goes on when stop() returns.
StopReturns == IF call.op = "cleanup" THEN "cleanup_drain" ELSE "idle"

\* A variant that leaves the collection as it is.
StopLeaves_Tracked(tracked) == tracked

\* What stop() leaves of a collection: the empty list.
StopLeaves(tracked) == <<>>

\* The end of stop(): one poll pass, then both collections are emptied.
StopPoll ==
    /\ pc = "stop_next"
    /\ todo = <<>>
    /\ PollerPoll
    /\ processes' = StopLeaves(processes)
    /\ daemons' = StopLeaves(daemons)
    /\ pc' = StopReturns
    /\ call' = IF call.op = "stop" THEN Return([call EXCEPT !.polled = TRUE], "None")
               ELSE [call EXCEPT !.polled = TRUE]
    /\ UNCHANGED <<callbacks, cur, todo, early, hist>>
    /\ UNCHANGED netVars

\* -------------------------------------------------------------------------
\* ProcessMonitor.run_process
\* -------------------------------------------------------------------------
\* run_process up to popen.wait(timeout) in Process.__init__.
RunProcessSpawn(timeout, wout, werr) ==
    /\ pc = "idle"
    /\ HasFreePid
    /\ Spawn(FreePid, FALSE, FALSE, timeout, wout, werr)
    /\ cur' = FreePid
    /\ call' = BeginCall("run_process")
    /\ pc' = "sync_wait"
    /\ UNCHANGED <<callbacks, processes, daemons, todo, delivered, early,
                   polled, hist>>
    /\ UNCHANGED netVars

\* popen.wait returns the exit status.
RunProcessWaited ==
    /\ pc = "sync_wait"
    /\ Exited(cur)
    /\ info' = [info EXCEPT ![cur].returncode = os[cur].status]
    /\ pc' = "sync_drain"
    /\ UNCHANGED <<os, callbacks, fds, processes, daemons, cur, todo, call,
                   delivered, early, polled, hist>>
    /\ UNCHANGED netVars

\* popen.wait raises TimeoutExpired: Process.stop up to its wait.
\* A variant in which the timeout stops every process the monitor knows.
TimeoutSignals_All == {cur} \cup Range(processes) \cup Range(daemons)

\* The processes the timeout of a synchronous launch sends SIGTERM to: the
\* process of the launch itself (self.stop()).
TimeoutSignals == {cur}

RunProcessTimeout ==
    /\ pc = "sync_wait"
    /\ info[cur].timeout
    /\ Running(cur)
    /\ os' = [q \in Pids |-> IF q \in TimeoutSignals /\ Running(q)
                              THEN [os[q] EXCEPT !.termed = TRUE]
                              ELSE os[q]]
    /\ call' = [call EXCEPT !.timedout = TRUE]
    /\ pc' = "sync_stop_wait"
    /\ UNCHANGED <<info, callbacks, fds, processes, daemons, cur, todo,
                   delivered, early, polled, hist>>
    /\ UNCHANGED netVars

RunProcessStopWait ==
    /\ pc = "sync_stop_wait"
    /\ ProcessStopWait(cur, "sync_drain")
    /\ UNCHANGED <<callbacks, fds, processes, daemons, cur, todo, call,
                   delivered, early, polled, hist>>
    /\ UNCHANGED netVars

\* Poller.wait_fd on stdout, then on stderr: poll passes while the descriptor
\* is registered.
WaitFdPending == <<cur, "stdout">> \in fds \/ <<cur, "stderr">> \in fds

RunProcessWaitFd ==
    /\ pc = "sync_drain"
    /\ WaitFdPending
    /\ PollerPoll
    /\ call' = [call EXCEPT !.polled = TRUE]
    /\ UNCHANGED <<callbacks, processes, daemons, pc, cur, todo, early, hist>>
    /\ UNCHANGED netVars

\* A variant that does not look at the exit status.
RunProcessError_NoStatus ==
    IF call.timedout THEN <<TimeoutError(cur)>> ELSE <<>>

\* The exception Process.__init__ raises, if any.
RunProcessError ==
    IF call.timedout THEN <<TimeoutError(cur)>>
    ELSE IF info[cur].returncode # Some(0) THEN <<RunInfoError(cur)>>
    ELSE <<>>

\* The end of run_process: the record is returned, or the exception is raised,
\* grouped with what _validate_state raises.
RunProcessReturn ==
    /\ pc = "sync_drain"
    /\ ~WaitFdPending
    /\ IF RunProcessError = <<>>
       THEN /\ call' = Return(call, "info")
            /\ UNCHANGED <<info, hist>>
       ELSE /\ info' = ValidateInfo
            /\ call' = Raise([call EXCEPT !.pending = PendingFailures],
                             RunProcessError \o ValidateExceptions)
            /\ hist' = [hist EXCEPT !.reported =
                            @ \cup Range(RunProcessError \o ValidateExceptions)]
    /\ pc' = "idle"
    /\ UNCHANGED <<os, callbacks, fds, processes, daemons, cur, todo,
                   delivered, early, polled>>
    /\ UNCHANGED netVars

\* -------------------------------------------------------------------------
\* DummyNet: names, host and contexts
\* -------------------------------------------------------------------------
\* Largest number of compensations pushed in one behaviour.
MaxPush == 4

\* NamespaceScoped(name="1"): the root namespace of the first context.
Root == "1"
ChildNs == {"ns1", "ns2"}
Ctxs == {Root} \cup ChildNs

\* The two ends of the veth pair link_veth_add creates; p1 is the tracked end.
Ifaces == {"veth0", "veth1"}
Peer(i) == IF i = "veth0" THEN "veth1" ELSE "veth0"
CgNames == {"cg0"}

\* InterfaceScoped(name="1"), the target of a netns_add item.
NoTarget == "1"

ShellError == <<"RunInfoError", 0>>
ValueError == <<"ValueError", 0>>
KeyError == <<"KeyError", 0>>
TypeError == <<"TypeError", 0>>
AssertionError == <<"AssertionError", 0>>

CleanupItem(id, ctx, namespace, target, reason) ==
    [id |-> id, ctx |-> ctx, namespace |-> namespace, target |-> target,
     reason |-> reason]

NetInit ==
    /\ cleaners = <<>>
    /\ namespaces = [c \in Ctxs |-> {}]
    /\ cgroups = [c \in Ctxs |-> {}]
    /\ undone = <<>>
    /\ nextId = 0
    /\ dnets = {}
    /\ explicit = FALSE
    /\ obj = <<>>
    /\ results = [p \in Pids |-> None]
    /\ shells = [n \in ChildNs |-> Root]
    /\ host = [ns |-> {}, cg |-> {}, loc |-> [i \in Ifaces |-> "none"],
               addr |-> [i \in Ifaces |-> FALSE],
               up |-> [i \in Ifaces |-> FALSE],
               netem |-> [i \in Ifaces |-> FALSE]]

\* A command run through the shell of context c reaches the kernel: the host
\* shell always, a NamespaceShell ('ip netns exec <name>' in front of the
\* command, handed to the shell it wraps) while its namespace exists and the
\* shell it wraps works.
RECURSIVE ShellWorks(_)
ShellWorks(c) == c = Root \/ (c \in host.ns /\ ShellWorks(shells[c]))

\* The contexts the caller holds.
Contexts == {Root} \cup dnets

CanPush == nextId < MaxPush

Push(item) ==
    /\ cleaners' = Append(cleaners, item)
    /\ nextId' = nextId + 1

\* The kernel deletes an interface: a veth goes with its peer.
HostLinkDelete(h, i) ==
    [h EXCEPT !.loc = [j \in Ifaces |-> IF j \in {i, Peer(i)} THEN "none" ELSE @[j]],
              !.addr = [j \in Ifaces |-> IF j \in {i, Peer(i)} THEN FALSE ELSE @[j]],
              !.up = [j \in Ifaces |-> IF j \in {i, Peer(i)} THEN FALSE ELSE @[j]],
              !.netem = [j \in Ifaces |-> IF j \in {i, Peer(i)} THEN FALSE ELSE @[j]]]

\* The kernel moves an interface to another namespace: it is brought down and
\* its addresses are flushed.
HostLinkSet(h, i, n) == [h EXCEPT !.loc[i] = n, !.addr[i] = FALSE, !.up[i] = FALSE]

\* The kernel deletes a namespace: the veths inside go, with their peers.
HostNetnsDelete(h, n) ==
    LET gone == {i \in Ifaces : h.loc[i] = n \/ h.loc[Peer(i)] = n}
    IN [h EXCEPT !.ns = @ \ {n},
                 !.loc = [j \in Ifaces |-> IF j \in gone THEN "none" ELSE @[j]],
                 !.addr = [j \in Ifaces |-> IF j \in gone THEN FALSE ELSE @[j]],
                 !.up = [j \in Ifaces |-> IF j \in gone THEN FALSE ELSE @[j]],
                 !.netem = [j \in Ifaces |-> IF j \in gone THEN FALSE ELSE @[j]]]

\* A provisioning call that raised: nothing was pushed.
ProvisionRaises(name, exc) ==
    /\ call' = Raise(BeginCall(name), <<exc>>)
    /\ UNCHANGED <<cleaners, namespaces, cgroups, undone, nextId, dnets, host,
                   explicit>>

ProvisionReturns(name) == call' = Return(BeginCall(name), "None")

\* The monitor's variables a DummyNet call leaves alone.
monRest == <<os, info, callbacks, fds, processes, daemons, pc, cur, todo,
             delivered, early, polled, hist, obj, results, shells>>

\* -------------------------------------------------------------------------
\* Scoped names (scoped.py, base58.py)
\* -------------------------------------------------------------------------
\* How far around the limits the names and uids of the inputs go.
NameSlack == 1

BASE58_ALPHABET ==
    <<"1", "2", "3", "4", "5", "6", "7", "8", "9",
      "A", "B", "C", "D", "E", "F", "G", "H", "J", "K", "L", "M", "N", "P", "Q",
      "R", "S", "T", "U", "V", "W", "X", "Y", "Z",
      "a", "b", "c", "d", "e", "f", "g", "h", "i", "j", "k", "m", "n", "o", "p",
      "q", "r", "s", "t", "u", "v", "w", "x", "y", "z">>

\* The digits of a positive number, most significant first.
RECURSIVE Base58Digits(_)
Base58Digits(num) ==
    IF num <= 0 THEN ""
    ELSE Base58Digits(num \div Len(BASE58_ALPHABET))
            \o BASE58_ALPHABET[(num % Len(BASE58_ALPHABET)) + 1]

int_to_base58(num) == IF num = 0 THEN BASE58_ALPHABET[1] ELSE Base58Digits(num)

Classes == {"InterfaceScoped", "NamespaceScoped", "CGroupScoped"}

SCOPED_MAX_LEN(cls) == IF cls = "InterfaceScoped" THEN 15 ELSE 255

UNSCOPED_NAMES(cls) ==
    CASE cls = "InterfaceScoped" -> {"lo"}
      [] cls = "NamespaceScoped" -> {"1"}
      [] OTHER -> {}

PREFIX_LEN == 2 + 4 + 1

UID_MAX == 58^4 - 1

\* A variant that checks the length whatever the uid.
LengthChecked_Always(uid) == TRUE

\* __post_init__ checks the length of the name only for a uid that is not 0.
LengthChecked(uid) == uid # 0

\* __post_init__: the uids that pass.
UidAccepted(uid) == uid = 0 \/ (0 <= uid /\ uid <= UID_MAX)

\* __post_init__ raises ValueError.
PostInitRaises(cls, name, uid) ==
    \/ LengthChecked(uid) /\ Len(name) > SCOPED_MAX_LEN(cls) - PREFIX_LEN
    \/ ~UidAccepted(uid)

\* Scoped.scoped
scoped(o) ==
    IF o.name \in UNSCOPED_NAMES(o.cls) \/ o.uid = 0
    THEN o.name
    ELSE "d-" \o int_to_base58(o.uid) \o "-" \o o.name

\* The name made of n letters a.
RECURSIVE Letters(_)
Letters(n) ==
    IF n <= 0 THEN ""
    ELSE IF n % 2 = 0 THEN LET half == Letters(n \div 2) IN half \o half
    ELSE Letters(n - 1) \o "a"

\* The inputs: names and uids around the limits.
NameLengths ==
    (1..(1 + NameSlack))
        \cup UNION {(SCOPED_MAX_LEN(cls) - PREFIX_LEN - NameSlack)
                        ..(SCOPED_MAX_LEN(cls) + NameSlack) : cls \in Classes}

Names == {"lo", "1"} \cup {Letters(n) : n \in NameLengths}

Uids ==
    ((0 - NameSlack)..NameSlack)
        \cup UNION {(58^k - NameSlack)..(58^k + NameSlack) : k \in 1..4}

\* cls(name=name, uid=uid): the object, or the ValueError of __post_init__.
ScopedNew(cls, name, uid) ==
    /\ pc = "idle"
    /\ obj' = IF PostInitRaises(cls, name, uid)
              THEN [cls |-> cls, name |-> name, uid |-> uid, exc |-> <<ValueError>>]
              ELSE [cls |-> cls, name |-> name, uid |-> uid, exc |-> <<>>]
    /\ UNCHANGED <<cleaners, namespaces, cgroups, undone, nextId, dnets, host,
                   explicit, results, shells>>
    /\ UNCHANGED <<os, info, callbacks, fds, processes, daemons, pc, cur, todo,
                   call, delivered, early, polled, hist>>

\* -------------------------------------------------------------------------
\* The handle of an asynchronous process (pending_result.py, process.py)
\* -------------------------------------------------------------------------
ProcessRunningError(p) == <<"ProcessRunningError", p>>

\* run_result.RunResult(...)
RunResult(stdout, stderr, returncode) ==
    [stdout |-> stdout, stderr |-> stderr, returncode |-> returncode]

\* The launch that returns the handle: Popen with pipes, then
\* PendingResult(process, cmd, cwd) with no result.
PendingResultNew(wout, werr) ==
    /\ pc = "idle"
    /\ HasFreePid
    /\ os' = [os EXCEPT ![FreePid] = [Unborn EXCEPT !.st = "running",
                  !.want = [stdout |-> wout, stderr |-> werr]]]
    /\ results' = [results EXCEPT ![FreePid] = None]
    /\ call' = Return(BeginCall("run_async"), "handle")
    /\ UNCHANGED <<cleaners, namespaces, cgroups, undone, nextId, dnets, host,
                   explicit, obj, shells>>
    /\ UNCHANGED <<info, callbacks, fds, processes, daemons, pc, cur, todo,
                   delivered, early, polled, hist>>

\* A variant that never finds a cached result.
ResultCached_Never(p) == FALSE

\* 'if self._result': a RunResult object is true, None is not.
ResultCached(p) == results[p] # None

\* The result property: the cached result if there is one; otherwise poll,
\* raise if there is no exit status, and else read both pipes to their end,
\* build the result, keep it and return it.  mark notes a result served from
\* the cache.
PendingResultResult(p) ==
    /\ pc = "idle"
    /\ Launched(p)
    /\ IF ResultCached(p)
       THEN /\ call' = [Return(BeginCall("result"), results[p][1]) EXCEPT !.mark = 1]
            /\ UNCHANGED <<os, results>>
       ELSE IF popen_poll(p) = None
       THEN /\ call' = Raise(BeginCall("result"), <<ProcessRunningError(p)>>)
            /\ UNCHANGED <<os, results>>
       ELSE LET r == RunResult(os[p].pipe.stdout, os[p].pipe.stderr, os[p].status[1])
            IN /\ results' = [results EXCEPT ![p] = Some(r)]
               /\ os' = [os EXCEPT ![p].pipe = NoBytes]
               /\ call' = Return(BeginCall("result"), r)
    /\ cur' = p
    /\ UNCHANGED <<cleaners, namespaces, cgroups, undone, nextId, dnets, host,
                   explicit, obj, shells>>
    /\ UNCHANGED <<info, callbacks, fds, processes, daemons, pc, todo,
                   delivered, early, polled, hist>>

\* -------------------------------------------------------------------------
\* DummyNet: the provisioning calls
\* -------------------------------------------------------------------------
netns_add(c, n) ==
    /\ pc = "idle" /\ c \in Contexts /\ CanPush
    /\ IF ShellWorks(c) /\ n \notin host.ns
       THEN /\ host' = [host EXCEPT !.ns = @ \cup {n}]
            /\ dnets' = dnets \cup {n}
            /\ namespaces' = [namespaces EXCEPT ![c] = @ \cup {n}, ![n] = {}]
            /\ cgroups' = [cgroups EXCEPT ![n] = {}]
            /\ shells' = [shells EXCEPT ![n] = c]
            /\ Push(CleanupItem(nextId + 1, c, n, NoTarget, "netns_add"))
            /\ ProvisionReturns("netns_add")
            /\ UNCHANGED <<undone, explicit>>
       ELSE /\ ProvisionRaises("netns_add", ShellError)
            /\ UNCHANGED shells
    /\ UNCHANGED <<os, info, callbacks, fds, processes, daemons, pc, cur, todo,
                   delivered, early, polled, hist, obj, results>>

link_veth_add(c) ==
    /\ pc = "idle" /\ c \in Contexts /\ CanPush
    /\ IF ShellWorks(c) /\ \A i \in Ifaces : host.loc[i] = "none"
       THEN /\ host' = [host EXCEPT !.loc = [i \in Ifaces |-> c]]
            /\ Push(CleanupItem(nextId + 1, c, c, "veth0", "link_veth_add"))
            /\ ProvisionReturns("link_veth_add")
            /\ UNCHANGED <<namespaces, cgroups, undone, dnets, explicit>>
       ELSE ProvisionRaises("link_veth_add", ShellError)
    /\ UNCHANGED monRest

\* What a confirmation poll that does not see its pattern in time raises.
PollError == <<"MatchError", 0>>

\* link_veth_add when 'ip link add' succeeded and the poll_until that follows
\* it raises: the statement that pushes the compensation is not reached.
link_veth_add_unconfirmed(c) ==
    /\ pc = "idle" /\ c \in Contexts /\ CanPush
    /\ ShellWorks(c) /\ \A i \in Ifaces : host.loc[i] = "none"
    /\ host' = [host EXCEPT !.loc = [i \in Ifaces |-> c]]
    /\ call' = Raise(BeginCall("link_veth_add"), <<PollError>>)
    /\ UNCHANGED <<cleaners, namespaces, cgroups, undone, nextId, dnets, explicit>>
    /\ UNCHANGED monRest

link_set(c, n, i) ==
    /\ pc = "idle" /\ c \in Contexts /\ CanPush
    /\ IF n \notin namespaces[c]
       THEN ProvisionRaises("link_set", ValueError)
       ELSE IF ShellWorks(c) /\ host.loc[i] = c /\ n \in host.ns
       THEN /\ host' = HostLinkSet(host, i, n)
            /\ Push(CleanupItem(nextId + 1, c, n, i, "link_set"))
            /\ ProvisionReturns("link_set")
            /\ UNCHANGED <<namespaces, cgroups, undone, dnets, explicit>>
       ELSE ProvisionRaises("link_set", ShellError)
    /\ UNCHANGED monRest

addr_add(c, i) ==
    /\ pc = "idle" /\ c \in Contexts /\ CanPush
    /\ IF ShellWorks(c) /\ host.loc[i] = c /\ ~host.addr[i]
       THEN /\ host' = [host EXCEPT !.addr[i] = TRUE]
            /\ Push(CleanupItem(nextId + 1, c, c, i, "addr_add"))
            /\ ProvisionReturns("addr_add")
            /\ UNCHANGED <<namespaces, cgroups, undone, dnets, explicit>>
       ELSE ProvisionRaises("addr_add", ShellError)
    /\ UNCHANGED monRest

\* CGroup(...) creates the cgroup directory; it raises if that exists.
add_cgroup(c, g) ==
    /\ pc = "idle" /\ c \in Contexts /\ CanPush
    /\ IF g \notin host.cg
       THEN /\ host' = [host EXCEPT !.cg = @ \cup {g}]
            /\ cgroups' = [cgroups EXCEPT ![c] = @ \cup {g}]
            /\ Push(CleanupItem(nextId + 1, c, c, g, "add_cgroup"))
            /\ ProvisionReturns("add_cgroup")
            /\ UNCHANGED <<namespaces, undone, dnets, explicit>>
       ELSE ProvisionRaises("add_cgroup", ShellError)
    /\ UNCHANGED monRest

\* The monitor's variables up and down leave alone.
monFrame == <<os, info, callbacks, fds, processes, daemons, pc, cur, todo,
              delivered, early, polled, obj, results, shells>>

\* The interface is visible to the shell of context c.
DeviceExists(c, i) == ShellWorks(c) /\ host.loc[i] = c

\* The administrative state of an interface before the first of the pending
\* up and down calls on it.
NoteBefore(i) ==
    IF \E k \in 1..Len(cleaners) :
           cleaners[k].target = i /\ cleaners[k].reason \in {"up", "down"}
    THEN hist
    ELSE [hist EXCEPT !.before = {b \in @ : b[1] # i} \cup {<<i, host.up[i]>>}]

\* A variant that takes the previous state for the opposite of the new one.
prev_state_Opposite(c, i, default) == default

\* prev_state of up and down: _current_administrative_state, or the default
\* when the device cannot be shown.
prev_state(c, i, default) == IF DeviceExists(c, i) THEN host.up[i] ELSE default

\* up (state = TRUE) and down (state = FALSE) of an interface.
LinkAdmin(name, c, i, state) ==
    /\ pc = "idle" /\ c \in Contexts /\ CanPush
    /\ IF DeviceExists(c, i)
       THEN /\ host' = [host EXCEPT !.up[i] = state]
            /\ Push(CleanupItem(nextId + 1, c, c, i, name)
                      @@ [prev |-> prev_state(c, i, ~state)])
            /\ hist' = NoteBefore(i)
            /\ ProvisionReturns(name)
            /\ UNCHANGED <<namespaces, cgroups, undone, dnets, explicit>>
       ELSE /\ ProvisionRaises(name, ShellError)
            /\ UNCHANGED hist
    /\ UNCHANGED monFrame

up(c, i) == LinkAdmin("up", c, i, TRUE)

down(c, i) == LinkAdmin("down", c, i, FALSE)

\* tc: a netem queueing discipline is added to the interface, or the one it
\* has is changed; no compensation is pushed.
tc(c, i) ==
    /\ pc = "idle" /\ c \in Contexts
    /\ IF DeviceExists(c, i)
       THEN /\ host' = [host EXCEPT !.netem[i] = TRUE]
            /\ ProvisionReturns("tc")
            /\ UNCHANGED <<cleaners, namespaces, cgroups, undone, nextId, dnets,
                           explicit>>
       ELSE ProvisionRaises("tc", ShellError)
    /\ UNCHANGED monRest

\* Another DummyNet context creates the veth pair in the root namespace and
\* leaves its ends up or down; nothing of it is on the stack of this context.
OtherContextLink(u) ==
    /\ pc = "idle"
    /\ \A i \in Ifaces : host.loc[i] = "none"
    /\ host' = [host EXCEPT !.loc = [i \in Ifaces |-> Root], !.up = u]
    /\ UNCHANGED <<cleaners, namespaces, cgroups, undone, nextId, dnets, explicit>>
    /\ UNCHANGED <<call, hist>>
    /\ UNCHANGED monFrame

\* A variant that removes only the entry that created the interface.
LinkDeleteKeeps_Created(item, i) == ~(item.target = i /\ item.reason = "link_veth_add")

\* The filter link_delete applies to the stack.
LinkDeleteKeeps(item, i) == ~(item.target = i)

link_delete(c, i) ==
    /\ pc = "idle" /\ c \in Contexts
    /\ IF ShellWorks(c) /\ host.loc[i] = c
       THEN /\ host' = HostLinkDelete(host, i)
            /\ cleaners' = SelectSeq(cleaners, LAMBDA item : LinkDeleteKeeps(item, i))
            /\ explicit' = TRUE
            /\ ProvisionReturns("link_delete")
            /\ UNCHANGED <<namespaces, cgroups, undone, nextId, dnets>>
       ELSE ProvisionRaises("link_delete", ShellError)
    /\ UNCHANGED monRest

\* A variant that filters by the context that pushed the item.
NetnsDeleteKeeps_Ctx(item, n) == ~(item.ctx = n)

\* The filter netns_delete applies to the stack.
NetnsDeleteKeeps(item, n) == ~(item.namespace = n)

netns_delete(c, n) ==
    /\ pc = "idle" /\ c \in Contexts
    /\ IF ShellWorks(c) /\ n \in host.ns
       THEN /\ host' = HostNetnsDelete(host, n)
            /\ cleaners' = SelectSeq(cleaners, LAMBDA item : NetnsDeleteKeeps(item, n))
            /\ explicit' = TRUE
            /\ ProvisionReturns("netns_delete")
            /\ UNCHANGED <<namespaces, cgroups, undone, nextId, dnets>>
       ELSE ProvisionRaises("netns_delete", ShellError)
    /\ UNCHANGED monRest

\* -------------------------------------------------------------------------
\* DummyNet: the compensations (the cleaner closures)
\* -------------------------------------------------------------------------
\* The shell commands of the cleaner of an item succeed.
CleanerShellOk(item) ==
    CASE item.reason = "netns_add" ->
            ShellWorks(item.ctx) /\ item.namespace \in host.ns
      [] item.reason = "link_veth_add" ->
            ShellWorks(item.ctx) /\ host.loc[item.target] = item.ctx
      [] item.reason = "link_set" ->
            /\ ShellWorks(item.ctx) /\ item.namespace \in host.ns
            /\ host.loc[item.target] = item.namespace
      [] item.reason = "addr_add" ->
            /\ ShellWorks(item.ctx) /\ host.loc[item.target] = item.ctx
            /\ host.addr[item.target]
      [] item.reason \in {"up", "down"} -> DeviceExists(item.ctx, item.target)
      [] OTHER -> TRUE

\* What the cleaner does to the host.
CleanerHost(item) ==
    IF ~CleanerShellOk(item) THEN host
    ELSE CASE item.reason = "netns_add" -> HostNetnsDelete(host, item.namespace)
           [] item.reason = "link_veth_add" -> HostLinkDelete(host, item.target)
           [] item.reason = "link_set" -> HostLinkSet(host, item.target, item.ctx)
           [] item.reason = "addr_add" -> [host EXCEPT !.addr[item.target] = FALSE]
           [] item.reason = "add_cgroup" -> [host EXCEPT !.cg = @ \ {item.target}]
           [] item.reason \in {"up", "down"} -> [host EXCEPT !.up[item.target] = item.prev]
           [] OTHER -> host

\* The exception the cleaner raises, if any.  The cleaner of link_veth_add
\* catches RunInfoError; the others let it through; dict.pop raises KeyError.
CleanerException(item) ==
    CASE item.reason = "netns_add" ->
            IF ~CleanerShellOk(item) THEN <<ShellError>>
            ELSE IF item.namespace \notin namespaces[item.ctx] THEN <<KeyError>>
            ELSE <<>>
      [] item.reason = "link_veth_add" -> <<>>
      [] item.reason = "add_cgroup" ->
            IF item.target \notin cgroups[item.ctx] THEN <<KeyError>> ELSE <<>>
      [] OTHER -> IF ~CleanerShellOk(item) THEN <<ShellError>> ELSE <<>>

\* What the cleaner does to the stack it was popped from: the cleaner of
\* netns_add calls netns_delete, which filters the stack.
CleanerStack(item, rest) ==
    IF item.reason = "netns_add" /\ CleanerShellOk(item)
    THEN SelectSeq(rest, LAMBDA other : NetnsDeleteKeeps(other, item.namespace))
    ELSE rest

\* -------------------------------------------------------------------------
\* DummyNet.cleanup (of the first context)
\* -------------------------------------------------------------------------
\* cleanup up to process_monitor.stop()'s _validate_state.  When that raises,
\* cleanup calls stop(validate_state=False), a parameter stop() does not have.
CleanupBegins ==
    [BeginCall("cleanup") EXCEPT !.stack = [k \in 1..Len(cleaners) |-> cleaners[k].id],
                                 !.mark = Len(undone),
                                 !.pending = PendingFailures,
                                 !.again = (call.op = "cleanup" /\ call.done
                                            /\ call.exc = <<>>)]

CleanupStop ==
    /\ pc = "idle"
    /\ info' = ValidateInfo
    /\ hist' = [hist EXCEPT !.reported = @ \cup Range(ValidateExceptions)]
    /\ IF ValidateExceptions # <<>>
       THEN /\ call' = Raise(CleanupBegins, <<TypeError>>)
            /\ UNCHANGED <<pc, todo>>
       ELSE /\ call' = CleanupBegins
            /\ todo' = StopOrder
            /\ pc' = "stop_next"
    /\ UNCHANGED <<os, callbacks, fds, processes, daemons, cur, delivered,
                   early, polled>>
    /\ UNCHANGED netVars

\* What the drain loop does when the cleaner it called raised.
DrainOnError(c, exc) == Raise(c, exc)

\* One turn of the drain loop: pop the top item and call its cleaner.
CleanupDrain ==
    /\ pc = "cleanup_drain"
    /\ cleaners # <<>>
    /\ LET item == cleaners[Len(cleaners)]
           rest == SubSeq(cleaners, 1, Len(cleaners) - 1)
       IN /\ undone' = Append(undone, item.id)
          /\ host' = CleanerHost(item)
          /\ cleaners' = CleanerStack(item, rest)
          /\ namespaces' = IF item.reason = "netns_add" /\ CleanerShellOk(item)
                           THEN [namespaces EXCEPT ![item.ctx] = @ \ {item.namespace}]
                           ELSE namespaces
          /\ cgroups' = IF item.reason = "add_cgroup"
                        THEN [cgroups EXCEPT ![item.ctx] = @ \ {item.target}]
                        ELSE cgroups
          /\ IF CleanerException(item) # <<>>
             THEN /\ call' = DrainOnError(call, CleanerException(item))
                  /\ pc' = IF call'.done THEN "idle" ELSE pc
             ELSE UNCHANGED <<call, pc>>
    /\ UNCHANGED <<nextId, dnets, explicit, obj, results, shells>>
    /\ UNCHANGED <<os, info, callbacks, fds, processes, daemons, cur, todo,
                   delivered, early, polled, hist>>

\* The three assertions at the end of cleanup, and its return.
CleanupReturn ==
    /\ pc = "cleanup_drain"
    /\ cleaners = <<>>
    /\ call' = IF namespaces[Root] # {} \/ cgroups[Root] # {}
               THEN Raise(call, <<AssertionError>>)
               ELSE Return(call, "None")
    /\ pc' = "idle"
    /\ UNCHANGED <<os, info, callbacks, fds, processes, daemons, cur, todo,
                   delivered, early, polled, hist>>
    /\ UNCHANGED netVars

\* -------------------------------------------------------------------------
\* Specifications
\* -------------------------------------------------------------------------
Init == MonInit /\ NetInit

\* No process has been launched yet.
NoneLaunched == \A p \in Pids : ~Launched(p)

\* The life cycle of the monitor: asynchronous and synchronous launches,
\* keep_running and stop, over children that write nothing.
Next ==
    \/ \E d \in BOOLEAN : run_process_async(d, 0, 0)
    \/ \E t \in BOOLEAN : RunProcessSpawn(t, 0, 0)
    \/ RunProcessWaited
    \/ RunProcessTimeout
    \/ RunProcessStopWait
    \/ RunProcessWaitFd
    \/ RunProcessReturn
    \/ KeepRunningPoll
    \/ KeepRunningValidate
    \/ StopValidate
    \/ StopNext
    \/ StopWait
    \/ StopPoll
    \/ \E p \in Pids, c \in {0, 1} : ChildExit(p, c)
    \/ \E p \in Pids : ChildTerminated(p)

Spec == Init /\ [][Next]_vars

\* The output path of the monitor: one child, writing to both streams, with
\* the caller's callbacks.
NextIO ==
    \/ \E d \in BOOLEAN, wout \in 0..MaxOut, werr \in 0..MaxErr :
          NoneLaunched /\ run_process_async(d, wout, werr)
    \/ \E t \in BOOLEAN, wout \in 0..MaxOut, werr \in 0..MaxErr :
          NoneLaunched /\ RunProcessSpawn(t, wout, werr)
    \/ RunProcessWaited
    \/ RunProcessTimeout
    \/ RunProcessStopWait
    \/ RunProcessWaitFd
    \/ RunProcessReturn
    \/ \E p \in Pids, s \in Streams : SetCallback(p, s)
    \/ KeepRunningPoll
    \/ KeepRunningValidate
    \/ StopValidate
    \/ StopNext
    \/ StopWait
    \/ StopPoll
    \/ \E p \in Pids, s \in Streams : ChildWrite(p, s)
    \/ \E p \in Pids, c \in {0, 1} : ChildExit(p, c)
    \/ \E p \in Pids : ChildTerminated(p)

SpecIO == Init /\ [][NextIO]_vars

\* A DummyNet context over a monitor that tracks no process.
NextNet ==
    \/ \E n \in ChildNs : netns_add(Root, n)
    \/ \E c \in Ctxs : link_veth_add(c)
    \/ \E n \in ChildNs, i \in Ifaces : link_set(Root, n, i)
    \/ \E c \in Ctxs, i \in Ifaces : addr_add(c, i)
    \/ \E g \in CgNames : add_cgroup(Root, g)
    \/ \E c \in Ctxs, i \in Ifaces : link_delete(c, i)
    \/ \E n \in ChildNs : netns_delete(Root, n)
    \/ CleanupStop
    \/ StopPoll
    \/ CleanupDrain
    \/ CleanupReturn

SpecNet == Init /\ [][NextNet]_vars

\* The teardown of a DummyNet context whose monitor tracks processes: the
\* network is provisioned first, the processes are launched afterwards, and
\* none is launched once cleanup has been called.
NextTeardown ==
    \/ \E n \in ChildNs : NoneLaunched /\ netns_add(Root, n)
    \/ NoneLaunched /\ link_veth_add(Root)
    \/ \E g \in CgNames : NoneLaunched /\ add_cgroup(Root, g)
    \/ \E d \in BOOLEAN : call.op # "cleanup" /\ run_process_async(d, 0, 0)
    \/ \E p \in Pids, c \in {0, 1} : ChildExit(p, c)
    \/ \E p \in Pids : ChildTerminated(p)
    \/ CleanupStop
    \/ StopNext
    \/ StopWait
    \/ StopPoll
    \/ CleanupDrain
    \/ CleanupReturn

\* The scoped names: every class, with names and uids around the limits.
NextScoped ==
    \E cls \in Classes, name \in Names, uid \in Uids : ScopedNew(cls, name, uid)

SpecScoped == Init /\ [][NextScoped]_vars

\* The handle of one asynchronous process: its launch, the child, and the
\* queries of the result.
NextHandle ==
    \/ \E wout \in 0..MaxOut, werr \in 0..MaxErr :
          NoneLaunched /\ PendingResultNew(wout, werr)
    \/ \E p \in Pids : PendingResultResult(p)
    \/ \E p \in Pids, s \in Streams : ChildWrite(p, s)
    \/ \E p \in Pids, c \in {0, 1} : ChildExit(p, c)

SpecHandle == Init /\ [][NextHandle]_vars

\* A caller that launches its processes and then loops on keep_running.  Each
\* keep_running call goes on to its end: poll() waits no longer than the
\* timeout it is given and nothing else in keep_running waits.
NextLoop ==
    \/ \E d \in BOOLEAN : call.op # "keep_running" /\ run_process_async(d, 0, 0)
    \/ KeepRunningPoll
    \/ KeepRunningValidate
    \/ \E p \in Pids, c \in {0, 1} : ChildExit(p, c)

SpecLoop ==
    Init /\ [][NextLoop]_vars
         /\ WF_vars(KeepRunningPoll) /\ WF_vars(KeepRunningValidate)

\* The administrative state and the traffic control of interfaces that
\* another context created.
NextAdmin ==
    \/ \E u \in [Ifaces -> BOOLEAN] : OtherContextLink(u)
    \/ \E i \in Ifaces : up(Root, i)
    \/ \E i \in Ifaces : down(Root, i)
    \/ \E i \in Ifaces : tc(Root, i)
    \/ CleanupStop
    \/ StopPoll
    \/ CleanupDrain
    \/ CleanupReturn

SpecAdmin == Init /\ [][NextAdmin]_vars

SpecTeardown == Init /\ [][NextTeardown]_vars

\* Contexts nested in contexts: every context the caller holds adds
\* namespaces, interfaces and addresses; the first context deletes
\* namespaces and cleans up.
NextNested ==
    \/ \E c \in Ctxs, n \in ChildNs : netns_add(c, n)
    \/ \E c \in Ctxs : link_veth_add(c)
    \/ \E c \in Ctxs, i \in Ifaces : addr_add(c, i)
    \/ \E n \in ChildNs : netns_delete(Root, n)
    \/ CleanupStop
    \/ StopPoll
    \/ CleanupDrain
    \/ CleanupReturn

SpecNested == Init /\ [][NextNested]_vars

\* Provisioning calls that fail half-way, and traffic control, on a host the
\* first context alone changes.
NextPartial ==
    \/ \E n \in ChildNs : netns_add(Root, n)
    \/ link_veth_add(Root)
    \/ link_veth_add_unconfirmed(Root)
    \/ \E i \in Ifaces : addr_add(Root, i)
    \/ \E i \in Ifaces : tc(Root, i)
    \/ \E g \in CgNames : add_cgroup(Root, g)
    \/ CleanupStop
    \/ StopPoll
    \/ CleanupDrain
    \/ CleanupReturn

SpecPartial == Init /\ [][NextPartial]_vars

\* The largest output of a synchronous command: one byte more than a pipe
\* holds.
SyncOut == PipeCap + 1

\* Synchronous launches without a timeout, one after the other.  The kernel
\* runs every child that can run, and the monitor goes on whenever the call
\* it waits in returns.
NextSync ==
    \/ \E wout \in 0..SyncOut, werr \in 0..MaxErr : RunProcessSpawn(FALSE, wout, werr)
    \/ RunProcessWaited
    \/ RunProcessWaitFd
    \/ RunProcessReturn
    \/ \E p \in Pids, s \in Streams : ChildWrite(p, s)
    \/ \E p \in Pids, c \in {0, 1} : ChildExit(p, c)

\* Cleanup called again and again: the network is provisioned, the processes
\* are launched and exit or not, and the caller cleans up.
NextAgain ==
    \/ \E n \in ChildNs : NoneLaunched /\ netns_add(Root, n)
    \/ NoneLaunched /\ link_veth_add(Root)
    \/ \E d \in BOOLEAN : call.op # "cleanup" /\ run_process_async(d, 0, 0)
    \/ \E p \in Pids : ChildExit(p, 0)
    \/ CleanupStop
    \/ StopNext
    \/ StopWait
    \/ StopPoll
    \/ CleanupDrain
    \/ CleanupReturn

SpecAgain == Init /\ [][NextAgain]_vars

SpecSync ==
    Init /\ [][NextSync]_vars
         /\ WF_vars(\E p \in Pids, s \in Streams : ChildWrite(p, s))
         /\ WF_vars(\E p \in Pids, c \in {0, 1} : ChildExit(p, c))
         /\ WF_vars(RunProcessWaited)
         /\ WF_vars(RunProcessWaitFd)
         /\ WF_vars(RunProcessReturn)

\* -------------------------------------------------------------------------
\* Properties of the process monitor
\* -------------------------------------------------------------------------
\* A keep_running call that went past its first check has finished.
KeepRunningDone == call.op = "keep_running" /\ call.done /\ call.polled

\* C1, as stated: when a tracked daemon has terminated (any status) while a
\* transient process was tracked, the next keep_running call raises an
\* aggregate that contains a DaemonExitError for that daemon.
C1_NextKeepRunningRaises ==
    KeepRunningDone =>
        \A d \in call.first : DaemonExitError(d) \in Range(call.exc)

\* C1, amended: the DaemonExitError of such a daemon is raised by the next
\* keep_running call unless an earlier call (a stop() or a failing
\* run_process made after the exit) has raised it already.
C1_DaemonExitRaisedOnce ==
    KeepRunningDone =>
        \A d \in call.first :
            \/ DaemonExitError(d) \in Range(call.exc)
            \/ /\ DaemonExitError(d) \in hist.reported
               /\ info[d].returncode # None

\* A keep_running call met a daemon that exited with status 0 while a
\* transient process was tracked, and raised its DaemonExitError.
C1_Witness ==
    /\ KeepRunningDone
    /\ \E d \in call.first :
          /\ os[d].status = Some(0)
          /\ DaemonExitError(d) \in Range(call.exc)

\* C2, as stated: stop() never raises.
C2_StopNeverRaises ==
    (call.op = "stop" /\ call.done) => call.exc = <<>>

\* C2, amended: stop() raises exactly when, as it begins, a tracked process
\* has a failure that no validation has seen yet (an exited daemon, a
\* transient that exited non-zero); it then raises the aggregate of those
\* failures before it signals anything.  In every other state, also after a
\* failure that was reported, it returns normally.
C2_StopRaisesOnlyPending ==
    (call.op = "stop" /\ call.done) =>
        /\ (call.exc # <<>>) <=> (call.pending # {})
        /\ Range(call.exc) =
             {IF p \in Range(daemons) THEN DaemonExitError(p) ELSE RunInfoError(p) :
                 p \in call.pending}
        /\ call.exc # <<>> => ~call.polled

\* stop() returned normally after a failure had been reported.
C2_Witness ==
    /\ call.op = "stop" /\ call.done /\ call.polled
    /\ call.exc = <<>>
    /\ \E p \in Pids : DaemonExitError(p) \in hist.reported

Written(p, s) == [k \in 1..os[p].nw[s] |-> k]

\* C5, as stated: when a synchronous launch returns successfully, the
\* record's stdout is exactly what the child wrote to its stdout, whatever
\* its length.
C5_SyncStdoutComplete ==
    (call.op = "run_process" /\ call.done /\ call.exc = <<>>) =>
        info[cur].stdout = Written(cur, "stdout")

\* A process's descriptors are both unregistered and all it wrote is in its
\* record.
Drained(p) ==
    /\ \A s \in Streams : <<p, s>> \notin fds
    /\ \A s \in Streams : info[p][s] = Written(p, s)

\* C6, as stated: keep_running records a tracked process as terminated (sets
\* the return code in its record) only once both its descriptors are
\* unregistered and all it wrote has been appended to its record.
C6_DeathAfterDrain ==
    [][KeepRunningValidate =>
         \A p \in Range(processes) \cup Range(daemons) :
             (info[p].returncode = None /\ info'[p].returncode # None) => Drained(p)]_vars

\* C7: for a stream whose callback was installed before any poll pass ran
\* after the launch, the chunks handed to the callback, concatenated in
\* delivery order, are exactly the record's field.
C7_CallbackSeesField ==
    \A p \in Pids, s \in Streams :
        early[p][s] => delivered[p][s] = info[p][s]

\* A stdout callback installed in time was handed more than one chunk, and
\* the descriptor is unregistered: the field is final.
C7_Witness ==
    \E p \in Pids :
        /\ early[p]["stdout"]
        /\ <<p, "stdout">> \notin fds
        /\ Len(delivered[p]["stdout"]) > ReadSize

\* -------------------------------------------------------------------------
\* Properties of the compensation stack
\* -------------------------------------------------------------------------
Reverse(s) == [k \in 1..Len(s) |-> s[Len(s) + 1 - k]]

\* The compensations the cleanup call in progress, or last finished, invoked.
InvokedByCleanup == SubSeq(undone, call.mark + 1, Len(undone))

\* C3, as stated: after successful provisioning calls with no explicit
\* link_delete or netns_delete, one cleanup() invokes every compensation on
\* the stack once, in the reverse of the order of insertion, and leaves the
\* stack empty.
C3_CleanupUndoesAllReversed ==
    (call.op = "cleanup" /\ call.done /\ ~explicit) =>
        /\ cleaners = <<>>
        /\ InvokedByCleanup = Reverse(call.stack)

\* C4, as stated: when a compensation raises while cleanup() drains the
\* stack, every compensation that was below it is still executed, and the
\* error surfaces only once the stack is drained.
C4_DrainSurvivesError ==
    (call.op = "cleanup" /\ call.done /\ Range(call.exc) \cap {ShellError, KeyError} # {}) =>
        /\ cleaners = <<>>
        /\ Range(call.stack) \subseteq Range(InvokedByCleanup)

\* -------------------------------------------------------------------------
\* Properties of validation
\* -------------------------------------------------------------------------
\* C11, as stated: when keep_running raises its validation failure, no
\* process registered with the monitor is left running.
C11_ValidationFailureStopsAll ==
    (call.op = "keep_running" /\ call.done /\ NoProcessesError \in Range(call.exc)) =>
        \A p \in Range(processes) \cup Range(daemons) : ~Running(p)

\* The failure of a tracked process, as _validate_state words it.
FailureOf(p) == IF p \in Range(daemons) THEN DaemonExitError(p) ELSE RunInfoError(p)

\* The failure of the synchronous launch of the call, if it failed.
SyncFailure ==
    IF call.op # "run_process" THEN {}
    ELSE IF call.timedout THEN {TimeoutError(cur)}
    ELSE IF os[cur].status # Some(0) THEN {RunInfoError(cur)}
    ELSE {}

\* C12: a call that raises at a validation point raises one aggregate whose
\* constituents are, each once, the failure of the synchronous launch if any
\* and one failure per tracked process whose failure was pending.
C12_AggregateKeepsEachFailure ==
    (call.done /\ call.op \in {"keep_running", "stop", "run_process"}
        /\ call.exc # <<>> /\ NoProcessesError \notin Range(call.exc)) =>
        /\ Range(call.exc) = SyncFailure \cup {FailureOf(p) : p \in call.pending}
        /\ Len(call.exc) = Cardinality(Range(call.exc))

\* A synchronous launch timed out while a tracked daemon had exited, and the
\* aggregate holds both failures.
C12_Witness ==
    /\ call.op = "run_process" /\ call.done /\ call.timedout
    /\ \E d \in Range(daemons) :
          call.exc = <<TimeoutError(cur), DaemonExitError(d)>>

\* -------------------------------------------------------------------------
\* Properties of the synchronous launch
\* -------------------------------------------------------------------------
\* A run_process call has finished.
RunProcessDone == call.op = "run_process" /\ call.done

\* s is an initial part of w.
IsPrefix(s, w) == Len(s) <= Len(w) /\ s = SubSeq(w, 1, Len(s))

\* C13, as stated: a synchronous launch raises TimeoutError exactly when the
\* child had not exited by the deadline; the kill policy has then been
\* applied, the record holds a signal-coded return code and the output
\* captured so far, and the child is not running.
C13_TimeoutKillsWithSignalCode ==
    RunProcessDone =>
        /\ (TimeoutError(cur) \in Range(call.exc)) <=> os[cur].termed
        /\ os[cur].termed =>
             /\ info[cur].returncode \in {Some(-SIGTERM), Some(-SIGKILL)}
             /\ ~Running(cur)
             /\ IsPrefix(info[cur].stdout, Written(cur, "stdout"))
             /\ IsPrefix(info[cur].stderr, Written(cur, "stderr"))

\* C13, amended: as above, but the return code of the record is the exit
\* status the kernel recorded, which is the signal's code when the child died
\* of SIGTERM or SIGKILL and the child's own status when it exited by itself
\* during the grace period.
C13_TimeoutKills ==
    RunProcessDone =>
        /\ (TimeoutError(cur) \in Range(call.exc)) <=> os[cur].termed
        /\ os[cur].termed =>
             /\ info[cur].returncode # None
             /\ info[cur].returncode = os[cur].status
             /\ ~Running(cur)
             /\ IsPrefix(info[cur].stdout, Written(cur, "stdout"))
             /\ IsPrefix(info[cur].stderr, Written(cur, "stderr"))

\* A synchronous launch timed out, the child was killed with SIGKILL, and the
\* record of the TimeoutError holds output.
C13_Witness ==
    /\ RunProcessDone
    /\ TimeoutError(cur) \in Range(call.exc)
    /\ info[cur].returncode = Some(-SIGKILL)
    /\ info[cur].stdout # <<>>

\* C14: a synchronous launch returns a record only if the child exited with
\* status 0, and the record says so (return code 0, not asynchronous, not a
\* daemon); if the child exits non-zero before the deadline the launch raises
\* RunInfoError, and the record holds that status and the captured output.
C14_ReturnsOnlyOnZero ==
    RunProcessDone =>
        /\ call.exc = <<>> =>
             /\ call.ret = "info"
             /\ os[cur].status = Some(0)
             /\ info[cur].returncode = Some(0)
             /\ ~info[cur].is_async /\ ~info[cur].is_daemon
        /\ (~os[cur].termed /\ os[cur].status # Some(0)) =>
             /\ RunInfoError(cur) \in Range(call.exc)
             /\ info[cur].returncode = os[cur].status
             /\ IsPrefix(info[cur].stdout, Written(cur, "stdout"))
             /\ IsPrefix(info[cur].stderr, Written(cur, "stderr"))

\* A synchronous launch raised RunInfoError for a child that exited with
\* status 1 after writing output, and the record holds output.
C14_Witness ==
    /\ RunProcessDone
    /\ call.exc = <<RunInfoError(cur)>>
    /\ info[cur].returncode = Some(1)
    /\ info[cur].stdout # <<>>

\* -------------------------------------------------------------------------
\* Properties of keep_running
\* -------------------------------------------------------------------------
\* C15: when keep_running returns without raising, it returns True exactly
\* when a tracked transient process is still running as it validates; a
\* running daemon does not make it return True.
C15_TrueIffTransientRuns ==
    [][(KeepRunningValidate /\ call'.exc = <<>>) =>
          /\ call'.ret \in {"True", "False"}
          /\ call'.ret = "True" <=> \E p \in Range(processes) : Running(p)]_vars

\* keep_running returned False with its transient process terminated and a
\* daemon running.
C15_Witness ==
    /\ KeepRunningDone /\ call.exc = <<>>
    /\ call.ret = "False"
    /\ processes # <<>>
    /\ \E d \in Range(daemons) : Running(d)

OneReadOf(p) ==
    \A s \in Streams : Len(info[p][s]) >= Min(ReadSize, os[p].nw[s])

EverTracked == {p \in Pids : Launched(p) /\ info[p].is_async}

\* C17, as stated: after a call to stop() has completed, however it ended,
\* every process that was tracked has a return code and is not running, and
\* both collections are empty.
C17_StopLeavesNothing ==
    (call.op = "stop" /\ call.done) =>
        /\ processes = <<>> /\ daemons = <<>>
        /\ \A p \in EverTracked : info[p].returncode # None /\ ~Running(p)

\* C17, amended: after a call to stop() that returned normally, every process
\* that was tracked has exited and its record holds the exit status, and both
\* collections are empty.
C17_StopThatReturnsLeavesNothing ==
    (call.op = "stop" /\ call.done /\ call.exc = <<>>) =>
        /\ processes = <<>> /\ daemons = <<>>
        /\ \A p \in EverTracked :
              /\ Exited(p)
              /\ info[p].returncode # None
              /\ info[p].returncode = os[p].status

\* stop() returned after it had to kill a daemon and a transient process.
C17_Witness ==
    /\ call.op = "stop" /\ call.done /\ call.exc = <<>>
    /\ \E p, d \in EverTracked :
          /\ ~info[p].is_daemon /\ info[p].returncode = Some(-SIGKILL)
          /\ info[d].is_daemon /\ info[d].returncode \in {Some(-SIGTERM), Some(-SIGKILL)}

\* -------------------------------------------------------------------------
\* Properties of cleanup and of the explicit deletes
\* -------------------------------------------------------------------------
\* C18, as stated: the assertions at the end of cleanup() never fail, whatever
\* provisioning calls, explicit netns_delete and link_delete included, were
\* made before.
C18_CleanupAssertionsHold ==
    (call.op = "cleanup" /\ call.done) => AssertionError \notin Range(call.exc)

\* The entries of a stack are in the order of their insertion.
InOrder(stack) == \A j \in 1..(Len(stack) - 1) : stack[j].id < stack[j + 1].id

\* C19: a netns_delete(n) that returns removes from the stack exactly the
\* entries whose scope is n, and leaves the others in their order.
C19_NetnsDeleteRemovesScope ==
    [][\A n \in ChildNs :
         (netns_delete(Root, n) /\ call'.exc = <<>>) =>
             /\ Range(cleaners') = {item \in Range(cleaners) : item.namespace # n}
             /\ Len(cleaners') = Cardinality(Range(cleaners'))
             /\ InOrder(cleaners')]_vars

\* netns_delete returned having removed at least two entries, none of them
\* invoked, and having left at least one.
C19_Witness ==
    /\ call.op = "netns_delete" /\ call.done /\ call.exc = <<>>
    /\ undone = <<>>
    /\ cleaners # <<>>
    /\ nextId >= Len(cleaners) + 2

\* C20: a link_delete(i) that returns, made from any context, removes from the
\* stack exactly the entries whose target is i, whatever their scope, and
\* leaves the others in their order.  Deleting the tracked end of the veth
\* pair removes its link_veth_add entry and its link_set entry; deleting the
\* other end removes no entry of the tracked end, the link_veth_add entry
\* included.
C20_LinkDeleteRemovesTarget ==
    [][\A c \in Ctxs, i \in Ifaces :
         (link_delete(c, i) /\ call'.exc = <<>>) =>
             /\ Range(cleaners') = {item \in Range(cleaners) : item.target # i}
             /\ Len(cleaners') = Cardinality(Range(cleaners'))
             /\ InOrder(cleaners')
             /\ i = "veth0" =>
                   \A item \in Range(cleaners') :
                       item.reason = "link_veth_add" \/ item.reason = "link_set"
                           => item.target # "veth0"
             /\ i = "veth1" =>
                   {item \in Range(cleaners) : item.target = "veth0"}
                       \subseteq Range(cleaners')]_vars

\* link_delete, called in a child namespace on the tracked end that had been
\* moved there, returned having removed the link_veth_add and the link_set
\* entry and left the netns_add entry.
C20_Witness ==
    /\ call.op = "link_delete" /\ call.done /\ call.exc = <<>>
    /\ undone = <<>>
    /\ host.ns # {}
    /\ Len(cleaners) = 1 /\ cleaners[1].reason = "netns_add"
    /\ nextId = Len(cleaners) + 2

\* -------------------------------------------------------------------------
\* Properties of the teardown with tracked processes
\* -------------------------------------------------------------------------
\* C21: a cleanup() called while one tracked daemon had exited ends with no
\* tracked process running, every compensation run (stack, namespaces and
\* cgroups empty), and raises an aggregate holding exactly the DaemonExitError
\* of that daemon.
C21_CleanupAfterDaemonDeath ==
    \A d \in Pids :
        (call.op = "cleanup" /\ call.done /\ call.pending = {d} /\ info[d].is_daemon) =>
            /\ \A p \in EverTracked : ~Running(p)
            /\ cleaners = <<>>
            /\ namespaces[Root] = {} /\ cgroups[Root] = {}
            /\ call.exc = <<DaemonExitError(d)>>

C23_StopLeavesReturnCode ==
    [][StopWait =>
          /\ info'[cur].returncode # None
          /\ info'[cur].returncode = os'[cur].status
          /\ IF Exited(cur)
             THEN /\ os'[cur] = os[cur]
                  /\ os[cur].status \in {Some(0), Some(1), Some(-SIGTERM)}
             ELSE info'[cur].returncode = Some(-SIGKILL)]_vars

\* The three outcomes: a daemon that exited with 0 on SIGTERM, one that died
\* of SIGTERM, and a transient process that had to be killed.
C23_Witness ==
    /\ call.op = "stop" /\ pc = "stop_next"
    /\ \E p, d \in EverTracked :
          /\ os[p].termed /\ ~info[p].is_daemon /\ info[p].returncode = Some(-SIGKILL)
          /\ os[d].termed /\ info[d].is_daemon
          /\ info[d].returncode \in {Some(0), Some(-SIGTERM)}

\* -------------------------------------------------------------------------
\* Properties of the provisioning calls
\* -------------------------------------------------------------------------
ProvisionOps ==
    {"netns_add", "link_veth_add", "link_set", "addr_add", "add_cgroup", "up",
     "down", "tc"}

\* A step that is one whole provisioning call.
ProvisionStep ==
    /\ pc = "idle" /\ pc' = "idle"
    /\ call'.op \in ProvisionOps
    /\ call' # call \/ host' # host \/ cleaners' # cleaners

\* C24, as stated: a provisioning call that returns pushes exactly one
\* compensation on top of the stack and leaves the entries below as they
\* were; one that raises leaves the stack as it was.
C24_CallPushesOne ==
    [][ProvisionStep =>
          IF call'.exc = <<>>
          THEN /\ Len(cleaners') = Len(cleaners) + 1
               /\ SubSeq(cleaners', 1, Len(cleaners)) = cleaners
          ELSE cleaners' = cleaners]_vars

\* C25, as stated: an entry leaves the stack only when cleanup() popped it and
\* its cleaner returned, or when netns_delete or link_delete (called by the
\* caller, or by the cleaner of a netns_add entry) removed it as an entry of
\* the namespace or of the interface deleted; an entry whose cleaner raised
\* stays.
C25_LeavesOnlyWhenUndone ==
    [][\A item \in Range(cleaners) \ Range(cleaners') :
          \/ /\ CleanupDrain
             /\ item = cleaners[Len(cleaners)]
             /\ CleanerException(item) = <<>>
          \/ /\ CleanupDrain
             /\ cleaners[Len(cleaners)].reason = "netns_add"
             /\ CleanerException(cleaners[Len(cleaners)]) = <<>>
             /\ item.namespace = cleaners[Len(cleaners)].namespace
          \/ \E n \in ChildNs : netns_delete(Root, n) /\ item.namespace = n
          \/ \E c \in Ctxs, i \in Ifaces : link_delete(c, i) /\ item.target = i]_vars

\* -------------------------------------------------------------------------
\* Properties of the record
\* -------------------------------------------------------------------------
\* C26, as stated: once the return code of a record is set, no step changes
\* the return code, and no step appends to the record's stdout or stderr.
C26_ReadOnlyOnceReturned ==
    [][\A p \in Pids :
          info[p].returncode # None =>
              /\ info'[p].returncode = info[p].returncode
              /\ info'[p].stdout = info[p].stdout
              /\ info'[p].stderr = info[p].stderr]_vars

\* -------------------------------------------------------------------------
\* Properties of the daemons
\* -------------------------------------------------------------------------
\* An asynchronous daemon that has been launched.
IsDaemon(d) == Launched(d) /\ info[d].is_async /\ info[d].is_daemon

TransientsExited ==
    /\ call.op = "keep_running"
    /\ processes # <<>>
    /\ \A p \in Range(processes) : Exited(p)

\* A keep_running call has ended the loop: it returned False or it raised.
LoopEnded ==
    /\ call.op = "keep_running" /\ call.done
    /\ call.ret = "False" \/ call.exc # <<>>

\* C28: in a loop on keep_running, once every tracked transient process has
\* exited, a keep_running call returns False or raises, whether or not
\* daemons are still running.
C28_LoopEnds == TransientsExited ~> LoopEnded

\* The loop went on while a transient process ran (keep_running returned
\* True), and ended with False while a daemon was still running.
C28_Witness ==
    /\ LoopEnded /\ call.ret = "False" /\ call.polled
    /\ \E p \in Range(processes) : os[p].status = Some(0) /\ p \in hist.kept
    /\ \E d \in Range(daemons) : Running(d)

\* -------------------------------------------------------------------------
\* Properties of the scoped names
\* -------------------------------------------------------------------------
\* C29, as stated: for every object the constructor accepts, uid 0 and the
\* unscoped names included, the string .scoped returns is no longer than the
\* ceiling of the class (15 for interfaces, 255 for namespaces and cgroups);
\* with a uid that is not 0, a name one character over what the prefix leaves
\* is rejected with ValueError, and so is a uid outside 0..58^4-1.
C29_ScopedFitsCeiling ==
    obj # <<>> =>
        /\ obj.exc = <<>> => Len(scoped(obj)) <= SCOPED_MAX_LEN(obj.cls)
        /\ (obj.uid # 0 /\ Len(obj.name) = SCOPED_MAX_LEN(obj.cls) - PREFIX_LEN + 1)
              => obj.exc = <<ValueError>>
        /\ ~(0 <= obj.uid /\ obj.uid <= UID_MAX) => obj.exc = <<ValueError>>

\* -------------------------------------------------------------------------
\* Properties of the handle of an asynchronous process
\* -------------------------------------------------------------------------
\* C30: a query of the result of a handle made while the child has not exited
\* raises ProcessRunningError and leaves no result in the handle; a query made
\* once the child has exited returns a result that carries the exit status,
\* and keeps it; a query of a handle that holds a result returns that result
\* and leaves it in place.
C30_ResultRaisesThenCaches ==
    [][\A p \in Pids :
          PendingResultResult(p) =>
              /\ ~Exited(p) =>
                    /\ call'.exc = <<ProcessRunningError(p)>>
                    /\ results[p] = None /\ results'[p] = None
              /\ Exited(p) =>
                    /\ call'.exc = <<>>
                    /\ call'.ret.returncode = os[p].status[1]
                    /\ results'[p] = Some(call'.ret)
              /\ results[p] # None =>
                    /\ call'.ret = results[p][1]
                    /\ results'[p] = results[p]]_vars

\* A query was served from the cache: the result of a child that wrote
\* output and exited with status 1.
C30_Witness ==
    /\ call.op = "result" /\ call.done /\ call.exc = <<>> /\ call.mark = 1
    /\ call.ret.stdout # <<>> /\ call.ret.returncode = 1
    /\ results[cur] = Some(call.ret)

\* -------------------------------------------------------------------------
\* Properties of the kill policy
\* -------------------------------------------------------------------------
\* The kernel delivered SIGKILL to the process.
Killed(p) == os[p].status = Some(-SIGKILL)

\* C31: Process.stop escalates in order.  A process whose exit status is
\* known is sent no signal and its record takes that status; SIGTERM goes
\* only to a process that is running; SIGKILL goes only to a process that
\* was sent SIGTERM before and is still running when the grace period ends;
\* and the step that ends the grace period leaves the process exited with
\* the kernel's status in its record.
C31_StopEscalates ==
    [][\A p \in Pids :
          /\ (StopNext /\ p = Head(todo) /\ Exited(p)) =>
                 /\ os' = os
                 /\ info'[p].returncode = os[p].status
          /\ (~os[p].termed /\ os'[p].termed) =>
                 /\ Running(p)
                 /\ ~Killed(p)
          /\ (~Killed(p) /\ os'[p].status = Some(-SIGKILL)) =>
                 /\ os[p].termed
                 /\ Running(p)
                 /\ p = cur /\ pc \in {"stop_wait", "sync_stop_wait"}
          /\ ((StopWait \/ RunProcessStopWait) /\ p = cur) =>
                 /\ os'[p].st = "exited"
                 /\ info'[p].returncode # None
                 /\ info'[p].returncode = os'[p].status]_vars

\* stop() returned over a transient process that had exited by itself, which
\* it sent no signal, and a daemon it had to kill after the grace period.
C31_Witness ==
    /\ call.op = "stop" /\ call.done /\ call.exc = <<>>
    /\ \E p, d \in EverTracked :
          /\ ~os[p].termed /\ info[p].returncode = Some(0)
          /\ os[d].termed /\ Killed(d) /\ info[d].returncode = Some(-SIGKILL)

\* -------------------------------------------------------------------------
\* Properties of the scopes of the stack
\* -------------------------------------------------------------------------
\* C32, as stated: the drain loop never invokes a compensation whose shell
\* runs through a namespace that has been deleted, nor one whose own
\* namespace has been deleted, whichever context pushed it, and it invokes
\* no compensation twice.
C32_NoUndoInDeletedNamespace ==
    [][CleanupDrain =>
          LET item == cleaners[Len(cleaners)]
          IN /\ ShellWorks(item.ctx)
             /\ item.namespace \in {Root} \cup host.ns
             /\ item.id \notin Range(undone)]_vars

\* -------------------------------------------------------------------------
\* Properties of teardown under partial failure
\* -------------------------------------------------------------------------
\* A compensation of the given kind for the given target is on the stack.
Pending(reason, target) ==
    \E k \in 1..Len(cleaners) :
        cleaners[k].reason = reason /\ cleaners[k].target = target

\* C33, as stated: at every point every mutation of the host made through a
\* provisioning call and not undone has its compensation on the stack: each
\* namespace, the veth pair, each address, each queueing discipline and each
\* cgroup; this also after a call that raised once its mutation had taken
\* effect.
C33_MutationsMatched ==
    /\ \A n \in host.ns :
          \E k \in 1..Len(cleaners) :
              cleaners[k].reason = "netns_add" /\ cleaners[k].namespace = n
    /\ (\E i \in Ifaces : host.loc[i] # "none") => Pending("link_veth_add", "veth0")
    /\ \A i \in Ifaces : host.addr[i] => Pending("addr_add", i)
    /\ \A i \in Ifaces : host.netem[i] => Pending("tc", i)
    /\ \A g \in host.cg : Pending("add_cgroup", g)

\* -------------------------------------------------------------------------
\* Properties of the output left by stop
\* -------------------------------------------------------------------------
\* C34, as stated: after stop() has returned, the record of every process it
\* stopped holds all the process wrote, and neither of its descriptors is
\* registered with the Poller.
C34_StopDrains ==
    (call.op = "stop" /\ call.done /\ call.exc = <<>>) =>
        \A p \in EverTracked : Drained(p)

\* -------------------------------------------------------------------------
\* Termination of the synchronous launch
\* -------------------------------------------------------------------------
\* C35, as stated: a synchronous launch without a timeout comes to its end,
\* by returning or by raising, whatever the amount of output the child
\* writes before it exits.
C35_SyncLaunchEnds ==
    (call.op = "run_process" /\ ~call.done /\ ~info[cur].timeout)
        ~> (call.op = "run_process" /\ call.done)

\* -------------------------------------------------------------------------
\* Properties of the buffers of a record
\* -------------------------------------------------------------------------
\* s is a final part of w.
IsSuffix(s, w) == Len(s) <= Len(w) /\ s = SubSeq(w, Len(w) - Len(s) + 1, Len(w))

\* C36: in every step each buffer of a record keeps its old value as a
\* prefix, and what it holds is an initial part of what the child wrote to
\* that stream, in the order of writing; what the callback of the stream has
\* been handed grows in the same way and is, in order, the final part of the
\* buffer.
C36_BuffersAppendOnly ==
    [][\A p \in Pids, s \in Streams :
          (Launched(p) /\ os'[p].st # "unborn") =>
              /\ IsPrefix(info[p][s], info'[p][s])
              /\ IsPrefix(info'[p][s], [k \in 1..os'[p].nw[s] |-> k])
              /\ IsPrefix(delivered[p][s], delivered'[p][s])
              /\ IsSuffix(delivered'[p][s], info'[p][s])]_vars

\* A stdout buffer built from more than one chunk, whose callback was
\* installed after the first chunk and has been handed the rest.
C36_Witness ==
    \E p \in Pids :
        /\ Len(info[p].stdout) > ReadSize
        /\ delivered[p].stdout # <<>>
        /\ delivered[p].stdout # info[p].stdout
        /\ info[p].stdout = Written(p, "stdout")

\* -------------------------------------------------------------------------
\* Properties of the two collections
\* -------------------------------------------------------------------------
\* C37: a process enters a collection only in the step that launches it
\* asynchronously, and then exactly the one its daemon flag names; a process
\* launched synchronously is in neither, whether its launch succeeded or
\* failed; the flags of a record never change; and a process leaves a
\* collection only at the end of stop(), which empties both.
C37_ClassificationFixed ==
    [][\A p \in Pids :
          /\ (~Launched(p) /\ os'[p].st # "unborn") =>
                 /\ (p \in Range(processes')) <=> (info'[p].is_async /\ ~info'[p].is_daemon)
                 /\ (p \in Range(daemons')) <=> (info'[p].is_async /\ info'[p].is_daemon)
          /\ Launched(p) =>
                 /\ info'[p].is_async = info[p].is_async
                 /\ info'[p].is_daemon = info[p].is_daemon
                 /\ (p \in Range(processes') => p \in Range(processes))
                 /\ (p \in Range(daemons') => p \in Range(daemons))
                 /\ ~info[p].is_async =>
                        p \notin Range(processes) \cup Range(daemons)
          /\ ((p \in Range(processes) /\ p \notin Range(processes'))
                \/ (p \in Range(daemons) /\ p \notin Range(daemons')))
             => (StopPoll /\ processes' = <<>> /\ daemons' = <<>>)]_vars

\* A synchronous launch failed while a daemon was tracked: the daemon is in
\* its collection and the failed process in neither.
C37_Witness ==
    /\ call.op = "run_process" /\ call.done /\ call.exc # <<>>
    /\ processes = <<>>
    /\ \E d \in Range(daemons) : info[d].is_daemon /\ d # cur
    /\ cur \notin Range(daemons)

\* -------------------------------------------------------------------------
\* Properties of the reports of failures
\* -------------------------------------------------------------------------
\* The processes the failures of a set name.
NamedIn(excs) == {e[2] : e \in excs} \ {0}

\* C38: a call that raises names no process that an earlier aggregate (of
\* keep_running, of stop() or of a failed synchronous launch) has named, and
\* names each process once.
C38_ReportedOnce ==
    [][(call' # call /\ call'.done /\ call'.exc # <<>>) =>
          /\ NamedIn(Range(call'.exc)) \cap NamedIn(hist.reported) = {}
          /\ Len(call'.exc) = Cardinality({e[2] : e \in Range(call'.exc)})]_vars

\* keep_running raised the failure of a transient process, and that alone,
\* while a daemon whose exit an earlier call had reported was still tracked.
C38_Witness ==
    /\ KeepRunningDone
    /\ \E q \in Range(processes), d \in Range(daemons) :
          /\ call.exc = <<RunInfoError(q)>>
          /\ DaemonExitError(d) \in hist.reported
          /\ Exited(d)

\* C39, as stated: once stop() has returned, every daemon that exited on its
\* own, with no signal sent to it, has been named by a DaemonExitError that
\* some call raised.
C39_DaemonExitReported ==
    (call.op = "stop" /\ call.done /\ call.exc = <<>>) =>
        \A d \in Pids :
            (IsDaemon(d) /\ Exited(d) /\ ~os[d].termed) =>
                DaemonExitError(d) \in hist.reported

\* -------------------------------------------------------------------------
\* Properties of a repeated cleanup
\* -------------------------------------------------------------------------
\* C40: a cleanup() called right after a cleanup() that returned finds
\* nothing tracked and nothing on the stack: in each of its steps no
\* compensation is invoked, the host is left as it is, no process is sent a
\* signal or changes its status, and it raises nothing and returns None.
C40_CleanupIdempotent ==
    [][((CleanupStop \/ StopNext \/ StopWait \/ StopPoll \/ CleanupDrain \/ CleanupReturn)
          /\ call'.op = "cleanup" /\ call'.again) =>
          /\ undone' = undone
          /\ host' = host
          /\ cleaners' = <<>>
          /\ processes' = <<>> /\ daemons' = <<>>
          /\ \A p \in Pids : os'[p].termed = os[p].termed /\ os'[p].status = os[p].status
          /\ call'.exc = <<>>
          /\ call'.done => call'.ret = "None"]_vars

\* The second cleanup() has returned; the first had invoked compensations and
\* had stopped a process.
C40_Witness ==
    /\ call.op = "cleanup" /\ call.again /\ call.done /\ call.exc = <<>>
    /\ undone # <<>>
    /\ \E p \in Pids : os[p].termed

====
